---- MODULE Spec2Model ----
(***************************************************************************)
(* State-machine agent: the RecursiveLoopMiddleware hooks                  *)
(* (modifyModelRequest, afterModel), the tools it registers and the        *)
(* runAgent interrupt loop that drives one thread of the agent.            *)
(*                                                                         *)
(* Texts are sequences of one-character strings, so that the JavaScript    *)
(* string operations the code relies on (includes, toLowerCase, trim,     *)
(* match, template literals, join, format) are computed character by      *)
(* character.  An optional value is <<>> (undefined) or <<v>>.             *)
(*                                                                         *)
(* Framework behaviour the hooks rely on, as the comments of the source    *)
(* state it: runtime.toolCalls.at(-1) is the most recent tool call of the  *)
(* thread that has produced a result ("the result of the last tool call"), *)
(* the object a hook returns replaces the state keys it names, a tool that *)
(* calls interrupt() returns the resume value as its result, and the       *)
(* checkpointer keeps the thread's state and tool calls between invokes.   *)
(***************************************************************************)
EXTENDS Integers, Sequences, FiniteSets, TLC

\* Bound: model calls made on the thread, over all runs.
MaxModelCalls == 3

\* Bound: the small recursionLimit a caller passes, next to the demo's.
SmallRecursionLimit == 4

(***************************************************************************)
(* Tool names (src/src/tools.ts)                                           *)
(***************************************************************************)

new_task ==
    <<"n", "e", "w", "_", "t", "a", "s", "k">>

ask_for_clarification ==
    <<"a", "s", "k", "_", "f", "o", "r", "_", "c", "l", "a", "r", "i", "f",
    "i", "c", "a", "t", "i", "o", "n">>

read_file ==
    <<"r", "e", "a", "d", "_", "f", "i", "l", "e">>

list_files ==
    <<"l", "i", "s", "t", "_", "f", "i", "l", "e", "s">>

search_files ==
    <<"s", "e", "a", "r", "c", "h", "_", "f", "i", "l", "e", "s">>

write_to_file ==
    <<"w", "r", "i", "t", "e", "_", "t", "o", "_", "f", "i", "l", "e">>

attempt_completion ==
    <<"a", "t", "t", "e", "m", "p", "t", "_", "c", "o", "m", "p", "l", "e",
    "t", "i", "o", "n">>

(***************************************************************************)
(* Texts the action tools return (src/src/tools.ts), for filepath and      *)
(* directory "a", query "q", content "x" and error message "m".            *)
(***************************************************************************)

readFileOk ==
    <<"F", "i", "l", "e", ":", " ", "a", " ", "(", "1", " ", "l", "i", "n",
    "e", "s", ",", " ", "1", " ", "c", "h", "a", "r", "a", "c", "t", "e",
    "r", "s", ")", "\n", "x">>

readFileENOENT ==
    <<"E", "r", "r", "o", "r", ":", " ", "F", "i", "l", "e", " ", "\"",
    "a", "\"", " ", "d", "o", "e", "s", " ", "n", "o", "t", " ", "e", "x",
    "i", "s", "t", ".">>

readFileOther ==
    <<"E", "r", "r", "o", "r", " ", "r", "e", "a", "d", "i", "n", "g", " ",
    "\"", "a", "\"", ":", " ", "m">>

listFilesOk ==
    <<"F", "i", "l", "e", "s", " ", "i", "n", " ", "a", " ", "(", "1", " ",
    "i", "t", "e", "m", "s", ")", ":", "\n", " ", " ", "f">>

listFilesENOENT ==
    <<"E", "r", "r", "o", "r", ":", " ", "D", "i", "r", "e", "c", "t", "o",
    "r", "y", " ", "\"", "a", "\"", " ", "d", "o", "e", "s", " ", "n", "o",
    "t", " ", "e", "x", "i", "s", "t", ".">>

listFilesOther ==
    <<"E", "r", "r", "o", "r", " ", "l", "i", "s", "t", "i", "n", "g", " ",
    "\"", "a", "\"", ":", " ", "m">>

searchFilesOk ==
    <<"N", "o", " ", "m", "a", "t", "c", "h", "e", "s", " ", "f", "o", "u",
    "n", "d", " ", "f", "o", "r", " ", "\"", "q", "\"", ".">>

searchFilesOther ==
    <<"E", "r", "r", "o", "r", " ", "s", "e", "a", "r", "c", "h", "i", "n",
    "g", " ", "f", "i", "l", "e", "s", ":", " ", "m">>

writeToFileOk ==
    <<"S", "u", "c", "c", "e", "s", "s", "f", "u", "l", "l", "y", " ", "c",
    "r", "e", "a", "t", "e", "d", " ", "a", " ", "w", "i", "t", "h", " ",
    "1", " ", "c", "h", "a", "r", "a", "c", "t", "e", "r", "s">>

writeToFileEACCES ==
    <<"E", "r", "r", "o", "r", ":", " ", "P", "e", "r", "m", "i", "s", "s",
    "i", "o", "n", " ", "d", "e", "n", "i", "e", "d", " ", "w", "r", "i",
    "t", "i", "n", "g", " ", "t", "o", " ", "\"", "a", "\"", ".">>

writeToFileOther ==
    <<"E", "r", "r", "o", "r", " ", "w", "r", "i", "t", "i", "n", "g", " ",
    "t", "o", " ", "\"", "a", "\"", ":", " ", "m">>

(***************************************************************************)
(* Interrupt labels (src/src/tools.ts); the leading emoji is written "?".  *)
(***************************************************************************)

newTaskLabel ==
    <<"?", " ", "I", "s", " ", "t", "h", "i", "s", " ", "t", "a", "s", "k",
    " ", "c", "o", "r", "r", "e", "c", "t", "?", " ", "(", "y", "/", "N",
    ")", ":", " ">>

askForClarificationLabel ==
    <<"?", " ", "P", "l", "e", "a", "s", "e", " ", "p", "r", "o", "v", "i",
    "d", "e", " ", "c", "l", "a", "r", "i", "f", "i", "c", "a", "t", "i",
    "o", "n", ":", " ">>

attemptCompletionLabel ==
    <<"?", " ", "A", "r", "e", " ", "y", "o", "u", " ", "s", "a", "t", "i",
    "s", "f", "i", "e", "d", " ", "w", "i", "t", "h", " ", "t", "h", "e",
    "s", "e", " ", "r", "e", "s", "u", "l", "t", "s", "?", " ", "(", "y",
    "/", "N", ")", ":", " ">>

(***************************************************************************)
(* Literals of the middleware (src/unnamed/part_002)                       *)
(***************************************************************************)

ConfirmedMarker ==
    <<"N", "E", "W", " ", "T", "A", "S", "K", " ", "C", "O", "N", "F", "I",
    "R", "M", "E", "D", ":">>

ConfirmedPrefix ==
    <<"N", "E", "W", " ", "T", "A", "S", "K", " ", "C", "O", "N", "F", "I",
    "R", "M", "E", "D", ":", " ", "t", "a", "s", "k", "_">>

ConfirmedInfix ==
    <<" ", "-", " ", "\"">>

FeedbackMarker ==
    <<"T", "A", "S", "K", " ", "F", "E", "E", "D", "B", "A", "C", "K", ":">>

FeedbackPrefix ==
    <<"T", "A", "S", "K", " ", "F", "E", "E", "D", "B", "A", "C", "K", ":",
    " ", "\"">>

StartedTaskPrefix ==
    <<"S", "t", "a", "r", "t", "e", "d", " ", "t", "a", "s", "k", ":", " ">>

TaskFeedbackPrefix ==
    <<"T", "a", "s", "k", " ", "f", "e", "e", "d", "b", "a", "c", "k", ":",
    " ">>

ErrorMarker ==
    <<"E", "r", "r", "o", "r", ":">>

DoesNotExistMarker ==
    <<"d", "o", "e", "s", " ", "n", "o", "t", " ", "e", "x", "i", "s", "t">>

EncounteredErrorSuffix ==
    <<":", " ", "e", "n", "c", "o", "u", "n", "t", "e", "r", "e", "d", " ",
    "e", "r", "r", "o", "r">>

CompletedSuccessfullySuffix ==
    <<":", " ", "c", "o", "m", "p", "l", "e", "t", "e", "d", " ", "s", "u",
    "c", "c", "e", "s", "s", "f", "u", "l", "l", "y">>

UndefinedText ==
    <<"u", "n", "d", "e", "f", "i", "n", "e", "d">>

CompletedPrompt ==
    <<"T", "a", "s", "k", " ", "h", "a", "s", " ", "b", "e", "e", "n", " ",
    "c", "o", "m", "p", "l", "e", "t", "e", "d", " ", "s", "u", "c", "c",
    "e", "s", "s", "f", "u", "l", "l", "y", ".", " ", "N", "o", " ", "f",
    "u", "r", "t", "h", "e", "r", " ", "a", "c", "t", "i", "o", "n", "s",
    " ", "n", "e", "e", "d", "e", "d", ".">>

NoActiveTask ==
    <<"N", "o", " ", "a", "c", "t", "i", "v", "e", " ", "t", "a", "s", "k">>

StartHint ==
    <<"S", "T", "A", "R", "T", ":", " ", "D", "e", "f", "i", "n", "e", " ",
    "a", " ", "n", "e", "w", " ", "t", "a", "s", "k", " ", "f", "i", "r",
    "s", "t">>

FocusHintPrefix ==
    <<"F", "O", "C", "U", "S", ":", " ", "Y", "o", "u", " ", "a", "r", "e",
    " ", "w", "o", "r", "k", "i", "n", "g", " ", "o", "n", " ", "\"">>

FocusHintSuffix ==
    <<"\"", ".", " ", "I", "f", " ", "i", "t", " ", "m", "e", "n", "t",
    "i", "o", "n", "s", " ", "a", " ", "s", "p", "e", "c", "i", "f", "i",
    "c", " ", "f", "i", "l", "e", ",", " ", "w", "o", "r", "k", " ", "w",
    "i", "t", "h", " ", "t", "h", "a", "t", " ", "f", "i", "l", "e", " ",
    "d", "i", "r", "e", "c", "t", "l", "y", "!">>

\* The separator of currentHistory.join: space, the arrow U+2192 (written
\* "->" as one character), space.
ArrowSeparator ==
    <<" ", "->", " ">>

\* The lines of the template that carry its three %s slots
\* (src/src/prompts.ts:28, 29 and 64); the fixed text between them is
\* left out.

classificationPromptTemplate ==
    <<"-", " ", "C", "u", "r", "r", "e", "n", "t", " ", "t", "a", "s", "k",
    ":", " ", "%", "s", "\n", "-", " ", "C", "o", "n", "t", "e", "x", "t",
    " ", "h", "i", "s", "t", "o", "r", "y", ":", " ", "%", "s", "\n", "%",
    "s", "\n">>

\* The opening words of the agent's base system prompt.

agentSystemPrompt ==
    <<"Y", "o", "u", " ", "a", "r", "e", " ", "C", "l", "i", "n", "e">>

(***************************************************************************)
(* Texts a human may type at the prompt (src/src/utils.ts:48)              *)
(***************************************************************************)

ReplyConfirmed ==
    <<"N", "E", "W", " ", "T", "A", "S", "K", " ", "C", "O", "N", "F", "I",
    "R", "M", "E", "D", ":", " ", "t", "a", "s", "k", "_", "7", " ", "-",
    " ", "\"", "f", "i", "x", " ", "b", "u", "g", "\"">>

ReplyConfirmedTwoDigits ==
    <<"o", "k", ",", " ", "N", "E", "W", " ", "T", "A", "S", "K", " ", "C",
    "O", "N", "F", "I", "R", "M", "E", "D", ":", " ", "t", "a", "s", "k",
    "_", "1", "2", " ", "-", " ", "\"", "a", "\"", " ", "i", "t", " ", "i",
    "s">>

ReplyConfirmedMalformed ==
    <<"N", "E", "W", " ", "T", "A", "S", "K", " ", "C", "O", "N", "F", "I",
    "R", "M", "E", "D", ":", " ", "a">>

ReplyFeedback ==
    <<"T", "A", "S", "K", " ", "F", "E", "E", "D", "B", "A", "C", "K", ":",
    " ", "\"", "n", "o", "t", " ", "t", "h", "a", "t", " ", "t", "a", "s",
    "k", "\"">>

ReplyPadded ==
    <<" ", "u", "s", "e", " ", "s", "r", "c", "/", "i", "n", "d", "e", "x",
    ".", "t", "s", " ">>

ReplyFeedbackMalformed ==
    <<"T", "A", "S", "K", " ", "F", "E", "E", "D", "B", "A", "C", "K", ":",
    " ", "b">>

YesNoMarker ==
    <<"y", "/", "N">>
(***************************************************************************)
(* JavaScript string operations                                            *)
(***************************************************************************)
Min(S) == CHOOSE x \in S : \A y \in S : x <= y

Max(S) == CHOOSE x \in S : \A y \in S : x >= y

\* p occurs in s starting at index i
MatchAt(s, p, i) ==
    /\ i >= 1
    /\ i + Len(p) - 1 <= Len(s)
    /\ SubSeq(s, i, i + Len(p) - 1) = p

\* String.prototype.includes
Includes(s, p) == \E i \in 1..(Len(s) - Len(p) + 1) : MatchAt(s, p, i)

UpperLetters ==
    <<"A", "B", "C", "D", "E", "F", "G", "H", "I", "J", "K", "L", "M",
      "N", "O", "P", "Q", "R", "S", "T", "U", "V", "W", "X", "Y", "Z">>

LowerLetters ==
    <<"a", "b", "c", "d", "e", "f", "g", "h", "i", "j", "k", "l", "m",
      "n", "o", "p", "q", "r", "s", "t", "u", "v", "w", "x", "y", "z">>

ToLowerChar(c) ==
    IF \E i \in 1..26 : UpperLetters[i] = c
    THEN LowerLetters[CHOOSE i \in 1..26 : UpperLetters[i] = c]
    ELSE c

\* String.prototype.toLowerCase
toLowerCase(s) == [i \in 1..Len(s) |-> ToLowerChar(s[i])]

Whitespace == {" ", "\n", "\t"}

\* trim that strips nothing
trimNone(s) == s

\* String.prototype.trim
trim(s) ==
    LET keep == {i \in 1..Len(s) : s[i] \notin Whitespace}
    IN  IF keep = {} THEN <<>> ELSE SubSeq(s, Min(keep), Max(keep))

Digits == {"0", "1", "2", "3", "4", "5", "6", "7", "8", "9"}

\* The index after the longest run of digits of s that starts at i (\d+)
DigitsEnd(s, i) ==
    CHOOSE j \in i..(Len(s) + 1) :
        /\ \A k \in i..(j - 1) : s[k] \in Digits
        /\ (j = Len(s) + 1 \/ s[j] \notin Digits)

\* The index after the longest run of non-quote characters of s that
\* starts at i ([^"]+)
NonQuoteEnd(s, i) ==
    CHOOSE j \in i..(Len(s) + 1) :
        /\ \A k \in i..(j - 1) : s[k] # "\""
        /\ (j = Len(s) + 1 \/ s[j] = "\"")

\* `${v}` for an optional text v
Interpolate(v) == IF v = <<>> THEN UndefinedText ELSE v[1]

RECURSIVE joinNewestFirst(_, _)
\* join that puts the last element first
joinNewestFirst(a, sep) ==
    IF a = <<>> THEN <<>>
    ELSE IF Len(a) = 1 THEN a[1]
    ELSE joinNewestFirst(Tail(a), sep) \o sep \o a[1]

RECURSIVE join(_, _)
\* Array.prototype.join
join(a, sep) ==
    IF a = <<>> THEN <<>>
    ELSE IF Len(a) = 1 THEN a[1]
    ELSE a[1] \o sep \o join(Tail(a), sep)

RECURSIVE format(_, _)
\* util.format with %s placeholders only
format(t, args) ==
    LET slots == {i \in 1..(Len(t) - 1) : t[i] = "%" /\ t[i + 1] = "s"}
    IN  IF args = <<>> \/ slots = {} THEN t
        ELSE SubSeq(t, 1, Min(slots) - 1) \o args[1]
             \o format(SubSeq(t, Min(slots) + 2, Len(t)), Tail(args))

(***************************************************************************)
(* The two patterns of afterModel                                          *)
(***************************************************************************)
\* /NEW TASK CONFIRMED: (task_\d+) - "([^"]+)"/ matches s at index i
ConfirmedMatchAt(s, i) ==
    /\ MatchAt(s, ConfirmedPrefix, i)
    /\ LET d0 == i + Len(ConfirmedPrefix)
           d1 == DigitsEnd(s, d0)
       IN  /\ d1 > d0
           /\ MatchAt(s, ConfirmedInfix, d1)
           /\ LET q0 == d1 + Len(ConfirmedInfix)
                  q1 == NonQuoteEnd(s, q0)
              IN  q1 > q0 /\ q1 <= Len(s)

\* Group 1 of the match at index i, taken for group 2
ConfirmedTaskIdAt(s, i) ==
    SubSeq(s, i + Len(ConfirmedMarker) + 1,
           DigitsEnd(s, i + Len(ConfirmedPrefix)) - 1)

\* Group 2 of the match at index i
ConfirmedLabelAt(s, i) ==
    LET q0 == DigitsEnd(s, i + Len(ConfirmedPrefix)) + Len(ConfirmedInfix)
    IN  SubSeq(s, q0, NonQuoteEnd(s, q0) - 1)

\* result.match(...)?.[2]: undefined, or the label of the leftmost match
taskMatch(result) ==
    LET at == {i \in 1..Len(result) : ConfirmedMatchAt(result, i)}
    IN  IF at = {} THEN <<>> ELSE <<ConfirmedLabelAt(result, Min(at))>>

\* /TASK FEEDBACK: "([^"]+)"/ matches s at index i
FeedbackMatchAt(s, i) ==
    /\ MatchAt(s, FeedbackPrefix, i)
    /\ LET q0 == i + Len(FeedbackPrefix)
           q1 == NonQuoteEnd(s, q0)
       IN  q1 > q0 /\ q1 <= Len(s)

\* feedbackMatch taking the whole match for group 1
feedbackMatchWhole(result) ==
    LET at == {i \in 1..Len(result) : FeedbackMatchAt(result, i)}
    IN  IF at = {} THEN <<>>
        ELSE LET q0 == Min(at) + Len(FeedbackPrefix)
             IN  <<SubSeq(result, Min(at), NonQuoteEnd(result, q0))>>

\* result.match(...)?.[1]: undefined, or the feedback of the leftmost match
feedbackMatch(result) ==
    LET at == {i \in 1..Len(result) : FeedbackMatchAt(result, i)}
    IN  IF at = {} THEN <<>>
        ELSE LET q0 == Min(at) + Len(FeedbackPrefix)
             IN  <<SubSeq(result, q0, NonQuoteEnd(result, q0) - 1)>>

(***************************************************************************)
(* The middleware                                                          *)
(***************************************************************************)
\* The tools the middleware registers
tools ==
    <<new_task, ask_for_clarification, read_file, list_files, search_files,
      write_to_file, attempt_completion>>

\* lastToolCall?.name
NameOf(lastToolCall) ==
    IF lastToolCall = <<>> THEN <<>> ELSE <<lastToolCall[1].name>>

\* lastToolCall?.result
ResultOf(lastToolCall) ==
    IF lastToolCall = <<>> THEN <<>> ELSE <<lastToolCall[1].result>>

\* isUserSatisfied without the check that there is a history
isUserSatisfiedNoHistory(currentHistory, lastToolCall) ==
    /\ NameOf(lastToolCall) = <<attempt_completion>>
    /\ ResultOf(lastToolCall) # <<>>
    /\ Includes(toLowerCase(ResultOf(lastToolCall)[1]), <<"y">>)

\* isUserSatisfied without the check of the tool's name
isUserSatisfiedAnyTool(currentHistory, lastToolCall) ==
    /\ Len(currentHistory) > 0
    /\ ResultOf(lastToolCall) # <<>>
    /\ Includes(toLowerCase(ResultOf(lastToolCall)[1]), <<"y">>)

isUserSatisfied(currentHistory, lastToolCall) ==
    /\ Len(currentHistory) > 0
    /\ NameOf(lastToolCall) = <<attempt_completion>>
    /\ ResultOf(lastToolCall) # <<>>
    /\ Includes(toLowerCase(ResultOf(lastToolCall)[1]), <<"y">>)

\* The systemPrompt of a request that keeps the loop going
systemPrompt(currentHistory, task) ==
    format(classificationPromptTemplate,
           << IF task = <<>> \/ task = << <<>> >> THEN NoActiveTask
                                                   ELSE task[1],
              join(currentHistory, ArrowSeparator),
              IF task = <<>> \/ task = << <<>> >> THEN StartHint
              ELSE FocusHintPrefix \o task[1] \o FocusHintSuffix >>)

modifyModelRequest(request, state, lastToolCall) ==
    IF isUserSatisfied(state.contextHistory, lastToolCall)
    THEN [request EXCEPT !.tools = <<>>,
                         !.systemPrompt = CompletedPrompt,
                         !.toolChoice = "none"]
    ELSE [request EXCEPT
              !.systemPrompt = systemPrompt(state.contextHistory,
                                            state.currentTask),
              !.toolChoice = "required"]

\* (lastToolCall?.result as string) || ""
resultText(lastToolCall) ==
    IF ResultOf(lastToolCall) = <<>> THEN <<>> ELSE ResultOf(lastToolCall)[1]

\* The new_task branch that accepts a confirmation
newTaskConfirmed(lastToolCall) ==
    /\ NameOf(lastToolCall) = <<new_task>>
    /\ Includes(resultText(lastToolCall), ConfirmedMarker)

\* The new_task branch that records feedback
newTaskFeedback(lastToolCall) ==
    /\ NameOf(lastToolCall) = <<new_task>>
    /\ Includes(resultText(lastToolCall), FeedbackMarker)
    /\ feedbackMatch(resultText(lastToolCall)) # <<>>

\* clearContext looking for "N" instead of "y"
clearContextOnN(lastToolCall) ==
    /\ NameOf(lastToolCall) = <<attempt_completion>>
    /\ Includes(resultText(lastToolCall), <<"N">>)

\* clearContext without the check of the result
clearContextAnyResult(lastToolCall) ==
    NameOf(lastToolCall) = <<attempt_completion>>

\* The branch that clears context and task
clearContext(lastToolCall) ==
    /\ NameOf(lastToolCall) = <<attempt_completion>>
    /\ Includes(resultText(lastToolCall), <<"y">>)

\* hasError looking for "Error" without the colon
hasErrorNoColon(result) ==
    Includes(result, SubSeq(ErrorMarker, 1, Len(ErrorMarker) - 1))
    \/ Includes(result, DoesNotExistMarker)

hasError(result) ==
    Includes(result, ErrorMarker) \/ Includes(result, DoesNotExistMarker)

\* The context note for all other tools
contextNote(lastToolCall) ==
    Interpolate(NameOf(lastToolCall))
    \o (IF hasError(resultText(lastToolCall)) THEN EncounteredErrorSuffix
        ELSE CompletedSuccessfullySuffix)

\* afterModel whose context note replaces the history instead of extending it
afterModelNoSpread(state, lastToolCall) ==
    IF newTaskConfirmed(lastToolCall)
    THEN [currentTask |-> taskMatch(resultText(lastToolCall)),
          contextHistory |->
              Append(state.contextHistory,
                     StartedTaskPrefix
                     \o Interpolate(taskMatch(resultText(lastToolCall))))]
    ELSE IF newTaskFeedback(lastToolCall)
    THEN [state EXCEPT
              !.contextHistory =
                  Append(state.contextHistory,
                         TaskFeedbackPrefix
                         \o feedbackMatch(resultText(lastToolCall))[1])]
    ELSE IF clearContext(lastToolCall)
    THEN [contextHistory |-> <<>>, currentTask |-> <<>>]
    ELSE [state EXCEPT !.contextHistory = <<contextNote(lastToolCall)>>]

\* afterModel whose clear branch leaves currentTask out of its update
afterModelClearKeepsTask(state, lastToolCall) ==
    IF newTaskConfirmed(lastToolCall)
    THEN [currentTask |-> taskMatch(resultText(lastToolCall)),
          contextHistory |->
              Append(state.contextHistory,
                     StartedTaskPrefix
                     \o Interpolate(taskMatch(resultText(lastToolCall))))]
    ELSE IF newTaskFeedback(lastToolCall)
    THEN [state EXCEPT
              !.contextHistory =
                  Append(state.contextHistory,
                         TaskFeedbackPrefix
                         \o feedbackMatch(resultText(lastToolCall))[1])]
    ELSE IF clearContext(lastToolCall)
    THEN [state EXCEPT !.contextHistory = <<>>]
    ELSE [state EXCEPT
              !.contextHistory =
                  Append(state.contextHistory, contextNote(lastToolCall))]

\* The state after the update afterModel returns is applied
afterModel(state, lastToolCall) ==
    IF newTaskConfirmed(lastToolCall)
    THEN [currentTask |-> taskMatch(resultText(lastToolCall)),
          contextHistory |->
              Append(state.contextHistory,
                     StartedTaskPrefix
                     \o Interpolate(taskMatch(resultText(lastToolCall))))]
    ELSE IF newTaskFeedback(lastToolCall)
    THEN [state EXCEPT
              !.contextHistory =
                  Append(state.contextHistory,
                         TaskFeedbackPrefix
                         \o feedbackMatch(resultText(lastToolCall))[1])]
    ELSE IF clearContext(lastToolCall)
    THEN [contextHistory |-> <<>>, currentTask |-> <<>>]
    ELSE [state EXCEPT
              !.contextHistory =
                  Append(state.contextHistory, contextNote(lastToolCall))]

(***************************************************************************)
(* The tools                                                               *)
(***************************************************************************)
\* The texts each action tool can return
readFile == {readFileOk, readFileENOENT, readFileOther}

listFiles == {listFilesOk, listFilesENOENT, listFilesOther}

searchFiles == {searchFilesOk, searchFilesOther}

writeToFile == {writeToFileOk, writeToFileEACCES, writeToFileOther}

\* ActionTools without write_to_file
ActionToolsReadOnly == {read_file, list_files, search_files}

ActionTools == {read_file, list_files, search_files, write_to_file}

\* The texts the action tool called name can return
Execute(name) ==
    IF name = read_file THEN readFile
    ELSE IF name = list_files THEN listFiles
    ELSE IF name = search_files THEN searchFiles
    ELSE writeToFile

\* The label of the interrupt the tool called name raises
InterruptLabel(name) ==
    IF name = new_task THEN newTaskLabel
    ELSE IF name = ask_for_clarification THEN askForClarificationLabel
    ELSE attemptCompletionLabel

\* What a human may type at rl.question
HumanReplies ==
    {<<>>, <<" ">>, <<"y">>, <<"Y">>, <<"N">>, ReplyConfirmed,
     ReplyConfirmedTwoDigits, ReplyConfirmedMalformed, ReplyFeedback,
     ReplyFeedbackMalformed, ReplyPadded}

(***************************************************************************)
(* One thread of the agent, driven by runAgent                             *)
(***************************************************************************)
VARIABLES
    contextHistory,  \* state.contextHistory
    currentTask,     \* state.currentTask, optional
    lastToolCall,    \* runtime.toolCalls.at(-1), optional
    request,         \* the model request modifyModelRequest returned
    toolCall,        \* the tool call of the model's last reply, optional
    interrupt,       \* result.__interrupt__: the pending label, optional
    response,        \* runAgent's response
    pc,              \* where the thread is
    modelCalls,      \* model calls made so far
    resets,          \* times afterModel cleared the state for lastToolCall
    recordings,      \* entries afterModel appended for lastToolCall
    accepted,        \* a confirmation was accepted and no clear came since
    recursionLimit,  \* config.recursionLimit
    steps,           \* graph steps taken in the agent.invoke under way
    runSteps,        \* graph steps taken since runAgent was called
    outstanding,     \* agent.invoke calls that have not returned
    unanswered,      \* interrupts returned minus resume invokes made
    typed,           \* what the human typed at the last rl.question
    runs             \* runAgent calls made on the thread

vars ==
    <<contextHistory, currentTask, lastToolCall, request, toolCall,
      interrupt, response, pc, modelCalls, resets, recordings, accepted,
      recursionLimit, steps, runSteps, outstanding, unanswered, typed,
      runs>>

state == [contextHistory |-> contextHistory, currentTask |-> currentTask]

\* The request createAgent hands to modifyModelRequest
baseRequest ==
    [tools |-> tools, systemPrompt |-> agentSystemPrompt, toolChoice |-> ""]

\* The recursionLimit of the demo's config
configRecursionLimit == 100

\* The limits a caller of runAgent passes in config
RecursionLimits == {SmallRecursionLimit, configRecursionLimit}

\* Where the graph goes after a step that has brought the invoke to n
\* steps: on to node, or to the recursion error when the limit is used up
AfterStep(node, n) == IF n >= recursionLimit THEN "limit" ELSE node

Init ==
    /\ contextHistory = <<>>
    /\ currentTask = <<>>
    /\ lastToolCall = <<>>
    /\ request = baseRequest
    /\ toolCall = <<>>
    /\ interrupt = <<>>
    /\ response = <<>>
    /\ pc = "idle"
    /\ modelCalls = 0
    /\ resets = 0
    /\ recordings = 0
    /\ accepted = FALSE
    /\ recursionLimit \in RecursionLimits
    /\ steps = 0
    /\ runSteps = 0
    /\ outstanding = 0
    /\ unanswered = 0
    /\ typed = <<>>
    /\ runs = 0

\* runAgent: agent.invoke({messages}, config)
RunAgent ==
    /\ pc = "idle"
    /\ pc' = "modifyModelRequest"
    /\ steps' = 0
    /\ runSteps' = 0
    /\ outstanding' = outstanding + 1
    /\ runs' = runs + 1
    /\ UNCHANGED <<contextHistory, currentTask, lastToolCall, request,
                   toolCall, interrupt, response, modelCalls, resets,
                   recordings, accepted, recursionLimit, unanswered, typed>>

\* modifyModelRequest that clears the state itself when it ends the loop
ModifyModelRequestClearing ==
    /\ pc = "modifyModelRequest"
    /\ modelCalls < MaxModelCalls
    /\ request' = modifyModelRequest(baseRequest, state, lastToolCall)
    /\ contextHistory' =
           IF isUserSatisfied(contextHistory, lastToolCall) THEN <<>>
           ELSE contextHistory
    /\ currentTask' =
           IF isUserSatisfied(contextHistory, lastToolCall) THEN <<>>
           ELSE currentTask
    /\ pc' = "model"
    /\ steps' = steps + 1
    /\ runSteps' = runSteps + 1
    /\ UNCHANGED <<lastToolCall, toolCall, interrupt, response, modelCalls,
                   resets, recordings, accepted, recursionLimit,
                   outstanding, unanswered, typed, runs>>

\* The modifyModelRequest hook, before a model call
ModifyModelRequest ==
    /\ pc = "modifyModelRequest"
    /\ modelCalls < MaxModelCalls
    /\ request' = modifyModelRequest(baseRequest, state, lastToolCall)
    /\ pc' = "model"
    /\ steps' = steps + 1
    /\ runSteps' = runSteps + 1
    /\ UNCHANGED <<contextHistory, currentTask, lastToolCall, toolCall,
                   interrupt, response, modelCalls, resets, recordings,
                   accepted, recursionLimit, outstanding, unanswered, typed,
                   runs>>

\* The model answers the request: with toolChoice "required" it calls one
\* of the offered tools, with toolChoice "none" it calls none.
ModelCall ==
    /\ pc = "model"
    /\ modelCalls' = modelCalls + 1
    /\ IF request.toolChoice = "required"
       THEN \E i \in 1..Len(request.tools) : toolCall' = <<request.tools[i]>>
       ELSE toolCall' = <<>>
    /\ pc' = AfterStep("afterModel", steps)
    /\ UNCHANGED <<contextHistory, currentTask, lastToolCall, request,
                   interrupt, response, resets, recordings, accepted,
                   recursionLimit, steps, runSteps, outstanding, unanswered,
                   typed, runs>>

\* The afterModel hook; the agent then runs the tool call, or ends the
\* invoke when the model made none.
AfterModel ==
    /\ pc = "afterModel"
    /\ contextHistory' = afterModel(state, lastToolCall).contextHistory
    /\ currentTask' = afterModel(state, lastToolCall).currentTask
    /\ pc' = IF toolCall = <<>> THEN "returned"
             ELSE AfterStep("tools", steps + 1)
    /\ resets' = IF clearContext(lastToolCall) /\ ~newTaskConfirmed(lastToolCall)
                    /\ ~newTaskFeedback(lastToolCall)
                 THEN resets + 1 ELSE resets
    /\ recordings' =
           IF Len(afterModel(state, lastToolCall).contextHistory)
                  = Len(contextHistory) + 1
           THEN recordings + 1 ELSE recordings
    /\ accepted' =
           IF newTaskConfirmed(lastToolCall)
              /\ taskMatch(resultText(lastToolCall)) # <<>>
           THEN TRUE
           ELSE IF clearContext(lastToolCall) THEN FALSE
           ELSE accepted
    /\ steps' = steps + 1
    /\ runSteps' = runSteps + 1
    /\ outstanding' = IF toolCall = <<>> THEN outstanding - 1 ELSE outstanding
    /\ UNCHANGED <<lastToolCall, request, toolCall, interrupt, response,
                   modelCalls, recursionLimit, unanswered, typed, runs>>

\* An action tool runs and returns its text
ExecuteTool ==
    /\ pc = "tools"
    /\ toolCall[1] \in ActionTools
    /\ \E result \in Execute(toolCall[1]) :
           lastToolCall' = <<[name |-> toolCall[1], result |-> result]>>
    /\ toolCall' = <<>>
    /\ resets' = 0
    /\ recordings' = 0
    /\ pc' = AfterStep("modifyModelRequest", steps + 1)
    /\ steps' = steps + 1
    /\ runSteps' = runSteps + 1
    /\ UNCHANGED <<contextHistory, currentTask, request, interrupt, response,
                   modelCalls, accepted, recursionLimit, outstanding,
                   unanswered, typed, runs>>

\* new_task, ask_for_clarification and attempt_completion call interrupt():
\* the step is left unfinished and the invoke returns with __interrupt__ set
Interrupt ==
    /\ pc = "tools"
    /\ toolCall[1] \notin ActionTools
    /\ interrupt' = <<InterruptLabel(toolCall[1])>>
    /\ response' = <<>>
    /\ pc' = "interrupted"
    /\ outstanding' = outstanding - 1
    /\ unanswered' = unanswered + 1
    /\ UNCHANGED <<contextHistory, currentTask, lastToolCall, request,
                   toolCall, modelCalls, resets, recordings, accepted,
                   recursionLimit, steps, runSteps, typed, runs>>

\* The invoke has taken recursionLimit steps and is not finished: it
\* throws, and so does runAgent
GraphRecursionError ==
    /\ pc = "limit"
    /\ pc' = "error"
    /\ outstanding' = outstanding - 1
    /\ UNCHANGED <<contextHistory, currentTask, lastToolCall, request,
                   toolCall, interrupt, response, modelCalls, resets,
                   recordings, accepted, recursionLimit, steps, runSteps,
                   unanswered, typed, runs>>

\* Question handing on the trimmed reply
QuestionTrimmed ==
    /\ pc = "interrupted"
    /\ \E reply \in HumanReplies :
           /\ typed' = reply
           /\ IF trim(reply) = <<>>
              THEN IF Includes(interrupt[1], YesNoMarker)
                   THEN response' = <<"N">> /\ pc' = "resume"
                   ELSE response' = reply /\ pc' = "interrupted"
              ELSE response' = trim(reply) /\ pc' = "resume"
    /\ UNCHANGED <<contextHistory, currentTask, lastToolCall, request,
                   toolCall, interrupt, modelCalls, resets, recordings,
                   accepted, recursionLimit, steps, runSteps, outstanding,
                   unanswered, runs>>

\* runAgent: one rl.question of the do-while loop
Question ==
    /\ pc = "interrupted"
    /\ \E reply \in HumanReplies :
           /\ typed' = reply
           /\ IF trim(reply) = <<>>
              THEN IF Includes(interrupt[1], YesNoMarker)
                   THEN response' = <<"N">> /\ pc' = "resume"
                   ELSE response' = reply /\ pc' = "interrupted"
              ELSE response' = reply /\ pc' = "resume"
    /\ UNCHANGED <<contextHistory, currentTask, lastToolCall, request,
                   toolCall, interrupt, modelCalls, resets, recordings,
                   accepted, recursionLimit, steps, runSteps, outstanding,
                   unanswered, runs>>

\* Resume whose result is not assigned: runAgent still sees the interrupt
\* it has answered
ResumeStaleInterrupt ==
    /\ pc = "resume"
    /\ lastToolCall' = <<[name |-> toolCall[1], result |-> response]>>
    /\ pc' = "interrupted"
    /\ steps' = 1
    /\ runSteps' = runSteps + 1
    /\ unanswered' = unanswered - 1
    /\ UNCHANGED <<contextHistory, currentTask, request, toolCall, interrupt,
                   response, modelCalls, resets, recordings, accepted,
                   recursionLimit, outstanding, typed, runs>>

\* runAgent: agent.invoke(new Command({resume: response}), config); the
\* interrupted tool runs again and returns response as its result
Resume ==
    /\ pc = "resume"
    /\ lastToolCall' = <<[name |-> toolCall[1], result |-> response]>>
    /\ toolCall' = <<>>
    /\ interrupt' = <<>>
    /\ resets' = 0
    /\ recordings' = 0
    /\ pc' = AfterStep("modifyModelRequest", 1)
    /\ steps' = 1
    /\ runSteps' = runSteps + 1
    /\ outstanding' = outstanding + 1
    /\ unanswered' = unanswered - 1
    /\ typed' = <<>>
    /\ UNCHANGED <<contextHistory, currentTask, request, response, modelCalls,
                   accepted, recursionLimit, runs>>

\* Return that also hands back a result that carries an interrupt
ReturnPendingInterrupt ==
    /\ pc \in {"returned", "interrupted"}
    /\ pc' = "idle"
    /\ UNCHANGED <<contextHistory, currentTask, lastToolCall, request,
                   toolCall, interrupt, response, modelCalls, resets,
                   recordings, accepted, recursionLimit, steps, runSteps,
                   outstanding, unanswered, typed, runs>>

\* runAgent: the result has no __interrupt__; return it
Return ==
    /\ pc = "returned"
    /\ pc' = "idle"
    /\ UNCHANGED <<contextHistory, currentTask, lastToolCall, request,
                   toolCall, interrupt, response, modelCalls, resets,
                   recordings, accepted, recursionLimit, steps, runSteps,
                   outstanding, unanswered, typed, runs>>

Next ==
    \/ RunAgent
    \/ ModifyModelRequest
    \/ ModelCall
    \/ AfterModel
    \/ ExecuteTool
    \/ Interrupt
    \/ GraphRecursionError
    \/ Question
    \/ Resume
    \/ Return

Spec == Init /\ [][Next]_vars

TypeOK ==
    /\ pc \in {"idle", "modifyModelRequest", "model", "afterModel", "tools",
               "interrupted", "resume", "returned", "limit", "error"}
    /\ modelCalls \in 0..MaxModelCalls
    /\ Len(contextHistory) <= MaxModelCalls
    /\ steps \in 0..recursionLimit

(***************************************************************************)
(* Properties                                                              *)
(***************************************************************************)
\* The last tool call is the one called name that returned result
LastIs(name, result) ==
    lastToolCall = <<[name |-> name, result |-> result]>>

\* result has a "y" in either letter case
Affirmative(result) == \E i \in 1..Len(result) : result[i] \in {"y", "Y"}

\* The request in force is the one modifyModelRequest built from the
\* present state
AtRequest == pc \in {"model", "afterModel"}

\* The request ends the loop: no tools offered, tool use not forced
Terminating == request.tools = <<>> /\ request.toolChoice = "none"

\* The request keeps the loop going: the whole catalog, tool use forced
Continuing == request.tools = tools /\ request.toolChoice = "required"

LastEntry == contextHistory[Len(contextHistory)]

C2_ClearedExactlyWhenTerminating ==
    /\ [](pc = "returned" => contextHistory = <<>> /\ currentTask = <<>>)
    /\ [][pc = "afterModel" /\ NameOf(lastToolCall) = <<attempt_completion>>
          => (Terminating
              <=> (contextHistory' = <<>> /\ currentTask' = <<>>))]_vars

\* C3: the terminating request is issued only when the last tool call is
\* an attempt_completion with an affirmative result and contextHistory is
\* non-empty; every other request forces tool use and offers the whole
\* catalog; the loop ends only on such a COMPLETION.
C3_OnlySatisfiedCompletionTerminates ==
    /\ AtRequest =>
           IF /\ NameOf(lastToolCall) = <<attempt_completion>>
              /\ Affirmative(resultText(lastToolCall))
              /\ contextHistory # <<>>
           THEN Terminating
           ELSE Continuing
    /\ pc = "returned" =>
           /\ NameOf(lastToolCall) = <<attempt_completion>>
           /\ Affirmative(resultText(lastToolCall))

C3_Witness ==
    /\ pc = "model"
    /\ LastIs(write_to_file, writeToFileOk)
    /\ Affirmative(writeToFileOk)
    /\ contextHistory # <<>>
    /\ Continuing

\* C4: an attempt_completion whose result has no affirmative token never
\* gets the terminating request, and the afterModel step that follows
\* keeps every entry of contextHistory, keeps currentTask and does not
\* end the run.
C4_UnsatisfiedCompletionContinues ==
    /\ [](AtRequest /\ NameOf(lastToolCall) = <<attempt_completion>>
              /\ ~Affirmative(resultText(lastToolCall))
          => Continuing)
    /\ [][pc = "afterModel" /\ NameOf(lastToolCall) = <<attempt_completion>>
              /\ ~Affirmative(resultText(lastToolCall))
          => /\ Len(contextHistory') >= Len(contextHistory)
             /\ SubSeq(contextHistory', 1, Len(contextHistory))
                    = contextHistory
             /\ currentTask' = currentTask
             /\ pc' # "returned"]_vars

C4_Witness ==
    /\ pc = "tools"
    /\ LastIs(attempt_completion, <<"N">>)
    /\ Len(contextHistory) >= 2
    /\ LastEntry = attempt_completion \o CompletedSuccessfullySuffix
    /\ currentTask # <<>>

\* C5: with an empty contextHistory, an attempt_completion answered "y"
\* does not get the terminating request: tool use stays forced.
C5_NoTerminationOnEmptyHistory ==
    AtRequest /\ contextHistory = <<>>
        /\ LastIs(attempt_completion, <<"y">>)
    => Continuing

C5_Witness ==
    /\ pc = "model"
    /\ contextHistory = <<>>
    /\ LastIs(attempt_completion, <<"y">>)
    /\ request.toolChoice = "required"

\* The confirmations a human may type, each with the label it carries
ConfirmedCases ==
    {<<ReplyConfirmed, <<"f", "i", "x", " ", "b", "u", "g">> >>,
     <<ReplyConfirmedTwoDigits, <<"a">> >>}

\* C6: a new_task result of the shape NEW TASK CONFIRMED: task_<digits> -
\* "<label>" sets currentTask to the label and appends the one entry
\* "Started task: <label>" after the entries already there.
C6_ConfirmationStartsTask ==
    [][\A c \in ConfirmedCases :
           pc = "afterModel" /\ LastIs(new_task, c[1])
           => /\ currentTask' = <<c[2]>>
              /\ contextHistory'
                     = Append(contextHistory, StartedTaskPrefix \o c[2])]_vars

C6_Witness ==
    /\ pc = "tools"
    /\ LastIs(new_task, ReplyConfirmedTwoDigits)
    /\ currentTask = << <<"a">> >>
    /\ Len(contextHistory) = 3
    /\ LastEntry = StartedTaskPrefix \o <<"a">>

\* C7: a new_task result of the shape TASK FEEDBACK: "<feedback>" leaves
\* currentTask as it is and appends the one entry
\* "Task feedback: <feedback>".
C7_FeedbackKeepsTask ==
    [][pc = "afterModel" /\ LastIs(new_task, ReplyFeedback)
       => /\ currentTask' = currentTask
          /\ contextHistory'
                 = Append(contextHistory,
                          TaskFeedbackPrefix
                          \o SubSeq(ReplyFeedback, Len(FeedbackPrefix) + 1,
                                    Len(ReplyFeedback) - 1))]_vars

C7_Witness ==
    /\ pc = "tools"
    /\ LastIs(new_task, ReplyFeedback)
    /\ currentTask # <<>>
    /\ Len(LastEntry) = Len(TaskFeedbackPrefix) + 13
    /\ MatchAt(LastEntry, TaskFeedbackPrefix, 1)

\* C8: a new_task result that matches neither pattern in full gets the
\* generic handling: one entry "new_task: completed successfully" or
\* "new_task: encountered error", currentTask as it is, and never an entry
\* "Started task: undefined".
C8_MalformedNewTaskIsGeneric ==
    /\ [](\A i \in 1..Len(contextHistory) :
              contextHistory[i] # StartedTaskPrefix \o UndefinedText)
    /\ [][pc = "afterModel" /\ NameOf(lastToolCall) = <<new_task>>
              /\ taskMatch(resultText(lastToolCall)) = <<>>
              /\ feedbackMatch(resultText(lastToolCall)) = <<>>
          => /\ currentTask' = currentTask
             /\ \/ contextHistory'
                       = Append(contextHistory,
                                new_task \o CompletedSuccessfullySuffix)
                \/ contextHistory'
                       = Append(contextHistory,
                                new_task \o EncounteredErrorSuffix)]_vars

\* C9: currentTask is set if and only if a new_task confirmation has been
\* accepted and no satisfied-COMPLETION reset has happened since.
C9_TaskSetIffAccepted == (currentTask # <<>>) <=> accepted

\* C10: an action tool's result without an error marker adds exactly the
\* one entry "<tool name>: completed successfully" and leaves currentTask
\* as it is.
C10_ActionAppendsOneEntry ==
    [][pc = "afterModel" /\ lastToolCall # <<>>
           /\ lastToolCall[1].name \in ActionTools
           /\ ~Includes(lastToolCall[1].result, ErrorMarker)
           /\ ~Includes(lastToolCall[1].result, DoesNotExistMarker)
       => /\ contextHistory'
                 = Append(contextHistory,
                          lastToolCall[1].name \o CompletedSuccessfullySuffix)
          /\ Len(contextHistory') = Len(contextHistory) + 1
          /\ currentTask' = currentTask]_vars

C10_Witness ==
    /\ pc = "tools"
    /\ LastIs(read_file, readFileOther)
    /\ Len(contextHistory) = 3
    /\ contextHistory[2] = list_files \o CompletedSuccessfullySuffix
    /\ LastEntry = read_file \o CompletedSuccessfullySuffix

\* C11: every afterModel step either keeps the prior entries, in order and
\* unchanged, and adds exactly one entry after them, or yields the empty
\* sequence; it yields the empty sequence only for a satisfied
\* attempt_completion.
C11_HistoryAppendOnlyOrCleared ==
    [][pc = "afterModel"
       => \/ /\ Len(contextHistory') = Len(contextHistory) + 1
             /\ SubSeq(contextHistory', 1, Len(contextHistory))
                    = contextHistory
          \/ /\ contextHistory' = <<>>
             /\ NameOf(lastToolCall) = <<attempt_completion>>
             /\ Affirmative(resultText(lastToolCall))]_vars

C11_Witness ==
    /\ pc = "tools"
    /\ Len(contextHistory) = 3
    /\ contextHistory[1] = UndefinedText \o CompletedSuccessfullySuffix
    /\ contextHistory[2] = StartedTaskPrefix \o <<"a">>
    /\ MatchAt(contextHistory[3], TaskFeedbackPrefix, 1)

\* The texts the action tools return when they fail
FailureTexts ==
    {readFileENOENT, readFileOther, listFilesENOENT, listFilesOther,
     searchFilesOther, writeToFileEACCES, writeToFileOther}

\* C12: every failure text of an action tool is recorded as
\* "<tool name>: encountered error", never as "completed successfully", and
\* the loop goes on.
C12_ActionFailureRecordedAsError ==
    [][pc = "afterModel" /\ lastToolCall # <<>>
           /\ lastToolCall[1].name \in ActionTools
           /\ lastToolCall[1].result \in FailureTexts
       => /\ contextHistory'
                 = Append(contextHistory,
                          lastToolCall[1].name \o EncounteredErrorSuffix)
          /\ pc' # "returned"]_vars

\* C14: while an interrupt waits for its reply no agent.invoke is under
\* way, every interrupt returned is answered by exactly one resume invoke,
\* and at most one agent.invoke is under way at any time.
C14_NoInvokeWhileSuspended ==
    /\ outstanding \in {0, 1}
    /\ unanswered \in {0, 1}
    /\ pc \in {"interrupted", "resume"} <=> unanswered = 1
    /\ unanswered = 1 => outstanding = 0
    /\ pc \in {"modifyModelRequest", "model", "afterModel", "tools", "limit"}
           <=> outstanding = 1

C14_Witness ==
    /\ pc = "resume"
    /\ modelCalls = 2
    /\ lastToolCall # <<>>
    /\ lastToolCall[1].name = ask_for_clarification
    /\ toolCall = <<attempt_completion>>
    /\ unanswered = 1
    /\ outstanding = 0

\* text has a character that is not white space
NonBlank(text) == \E i \in 1..Len(text) : text[i] \notin {" ", "\n", "\t"}

\* C15: the response handed to resume is never empty or white space only:
\* a blank reply to a label without "y/N" is asked again under the same
\* label, and a blank reply to a "y/N" label becomes "N" at once.
C15_ResumeReplyNeverBlank ==
    /\ [](pc = "resume" => NonBlank(response))
    /\ [](lastToolCall # <<>> /\ lastToolCall[1].name \notin ActionTools
          => NonBlank(lastToolCall[1].result))
    /\ [][pc = "interrupted" /\ ~NonBlank(typed')
          => /\ interrupt' = interrupt
             /\ IF interrupt[1] \in {newTaskLabel, attemptCompletionLabel}
                THEN response' = <<"N">> /\ pc' = "resume"
                ELSE pc' = "interrupted"]_vars
    /\ [][pc = "interrupted" /\ NonBlank(typed')
          => response' = typed' /\ pc' = "resume"]_vars

C15_Witness ==
    /\ pc = "resume"
    /\ typed = <<" ">>
    /\ response = <<"N">>
    /\ interrupt = <<newTaskLabel>>

\* C16: a non-blank reply to the interrupt of ask_for_clarification comes
\* back unchanged as the result of that tool call, and afterModel appends
\* one entry for ask_for_clarification, as for any other outcome.
C16_ClarificationRoundTrip ==
    /\ [](pc = "resume" /\ toolCall = <<ask_for_clarification>>
          => response = typed /\ NonBlank(typed))
    /\ [][pc = "resume" /\ toolCall = <<ask_for_clarification>>
          => lastToolCall'
                 = <<[name |-> ask_for_clarification, result |-> typed]>>]_vars
    /\ [][pc = "afterModel"
              /\ NameOf(lastToolCall) = <<ask_for_clarification>>
          => contextHistory'
                 = Append(contextHistory,
                          ask_for_clarification
                          \o CompletedSuccessfullySuffix)]_vars

C16_Witness ==
    /\ pc = "tools"
    /\ LastIs(ask_for_clarification, ReplyPadded)
    /\ Len(contextHistory) = 2
    /\ LastEntry = ask_for_clarification \o CompletedSuccessfullySuffix

\* C17: read_file, list_files, search_files and write_to_file never raise
\* an interrupt and always hand a result text back to the loop, also when
\* they fail; ask_for_clarification and attempt_completion raise an
\* interrupt whenever the agent runs them.
C17_OnlyQuestionAndCompletionSuspend ==
    [][pc = "tools"
       => IF toolCall[1] \in {read_file, list_files, search_files,
                              write_to_file}
          THEN /\ interrupt' = <<>>
               /\ unanswered' = unanswered
               /\ pc' \in {"modifyModelRequest", "limit"}
               /\ lastToolCall' # <<>>
               /\ lastToolCall'[1].name = toolCall[1]
               /\ lastToolCall'[1].result # <<>>
          ELSE toolCall[1] \in {ask_for_clarification, attempt_completion}
               => /\ pc' = "interrupted"
                  /\ interrupt' # <<>>
                  /\ unanswered' = unanswered + 1
                  /\ lastToolCall' = lastToolCall]_vars

C17_Witness ==
    /\ pc = "interrupted"
    /\ toolCall = <<attempt_completion>>
    /\ interrupt = <<attemptCompletionLabel>>
    /\ LastIs(write_to_file, writeToFileOther)

\* C18: a run never takes more steps than config.recursionLimit, counted
\* over the whole run, and when it fails with the recursion error it has
\* taken exactly that many.
C18_RunBoundedByRecursionLimit ==
    /\ runSteps <= recursionLimit
    /\ pc = "error" => runSteps = recursionLimit

\* The tools other than attempt_completion
OtherActions ==
    {new_task, ask_for_clarification, read_file, list_files, search_files,
     write_to_file}

\* entry is what afterModel appends for an executed tool call of OtherActions
RecordsOtherAction(entry) ==
    \/ \E name \in OtherActions :
           entry \in {name \o CompletedSuccessfullySuffix,
                      name \o EncounteredErrorSuffix}
    \/ MatchAt(entry, StartedTaskPrefix, 1)
    \/ MatchAt(entry, TaskFeedbackPrefix, 1)

\* C21: in the first run of a thread the terminating request is issued
\* only when contextHistory holds the entry of an executed action other
\* than attempt_completion; an attempt_completion chosen first and answered
\* "y" keeps the loop going.
C21_NoTerminationBeforeOtherAction ==
    runs = 1 /\ AtRequest /\ Terminating
    => \E i \in 1..Len(contextHistory) :
           RecordsOtherAction(contextHistory[i])

\* C22: only the afterModel step changes contextHistory and currentTask:
\* modifyModelRequest, the model call, the tools, the interrupt, the
\* question, the resume and the return leave both as they are.
C22_OnlyAfterModelChangesState ==
    [][pc # "afterModel" => UNCHANGED <<contextHistory, currentTask>>]_vars

C22_Witness ==
    /\ pc = "model"
    /\ runSteps > steps
    /\ LastIs(ask_for_clarification, ReplyPadded)
    /\ currentTask # <<>>
    /\ Len(contextHistory) = 2

\* A thread whose caller passes the small recursionLimit
LiveInit == Init /\ recursionLimit = SmallRecursionLimit

\* runAgent's own steps are taken when they can be: the human gives a
\* reply the do-while loop accepts, the resume invoke is made, the result
\* without __interrupt__ is returned
LiveSpec ==
    /\ LiveInit
    /\ [][Next]_vars
    /\ WF_vars(Question /\ pc' = "resume")
    /\ WF_vars(Resume)
    /\ WF_vars(Return)

\* C23: runAgent returns only a result without a pending interrupt; while
\* the latest result carries one it asks and then makes the resume invoke;
\* every interrupt is followed by its resume invoke and every result
\* without an interrupt by the return of runAgent.
C23_RunAgentLoopsUntilNoInterrupt ==
    /\ [](pc \in {"returned", "idle"} => interrupt = <<>> /\ unanswered = 0)
    /\ [][pc' = "idle" /\ pc # "idle" => pc = "returned"]_vars
    /\ [][pc = "interrupted" => pc' \in {"interrupted", "resume"}]_vars
    /\ [][pc = "resume" => outstanding' = 1 /\ unanswered' = 0]_vars
    /\ (pc = "interrupted") ~> (outstanding = 1)
    /\ (pc = "returned") ~> (pc = "idle")

C23_Witness ==
    /\ pc = "idle"
    /\ runs = 1
    /\ modelCalls = 2
    /\ runSteps > steps
    /\ interrupt = <<>>
    /\ unanswered = 0

CurrentTaskLine ==
    <<"C", "u", "r", "r", "e", "n", "t", " ", "t", "a", "s", "k", ":", " ">>

ContextHistoryLine ==
    <<"C", "o", "n", "t", "e", "x", "t", " ", "h", "i", "s", "t", "o", "r",
    "y", ":", " ">>

RECURSIVE EntriesInOrder(_, _)
\* The first n entries of a, oldest first, with the arrow between
\* neighbours
EntriesInOrder(a, n) ==
    IF n = 0 THEN <<>>
    ELSE IF n = 1 THEN a[1]
    ELSE EntriesInOrder(a, n - 1) \o <<" ", "->", " ">> \o a[n]

\* C24: the instruction text of every request that keeps the loop going
\* has the line of the current task, or of "No active task" when there is
\* none, the line of the contextHistory entries, oldest first with the
\* arrow between them, the FOCUS hint naming currentTask exactly when
\* currentTask is set, and the START hint exactly when it is not.
C24_PromptCarriesTaskHistoryAndHint ==
    AtRequest /\ Continuing
    => LET text == request.systemPrompt
           task == IF currentTask = <<>> THEN NoActiveTask
                   ELSE currentTask[1]
       IN  /\ Includes(text, CurrentTaskLine \o task \o <<"\n">>)
           /\ Includes(text,
                       ContextHistoryLine
                       \o EntriesInOrder(contextHistory, Len(contextHistory))
                       \o <<"\n">>)
           /\ currentTask # <<>>
                  <=> Includes(text,
                               FocusHintPrefix \o task \o FocusHintSuffix)
           /\ currentTask = <<>> <=> Includes(text, StartHint)

C24_Witness ==
    /\ pc = "model"
    /\ Continuing
    /\ modelCalls = 2
    /\ currentTask = << <<"f", "i", "x", " ", "b", "u", "g">> >>
    /\ Len(contextHistory) = 2
    /\ Includes(request.systemPrompt, ArrowSeparator \o StartedTaskPrefix)

\* C25: a set currentTask has its entry "Started task: <label>" in
\* contextHistory, and an empty contextHistory goes with no currentTask.
C25_TaskHasStartedEntry ==
    /\ currentTask # <<>>
       => \E i \in 1..Len(contextHistory) :
              contextHistory[i] = StartedTaskPrefix \o currentTask[1]
    /\ contextHistory = <<>> => currentTask = <<>>

C25_Witness ==
    /\ pc = "tools"
    /\ currentTask = << <<"f", "i", "x", " ", "b", "u", "g">> >>
    /\ Len(contextHistory) = 3
    /\ contextHistory[2]
           = StartedTaskPrefix \o <<"f", "i", "x", " ", "b", "u", "g">>
    /\ LastEntry = list_files \o EncounteredErrorSuffix

\* C26: afterModel appends no entry while the thread has no finished tool
\* call, so no entry starts with "undefined", and it appends at most one
\* entry for the same tool call.
C26_EachOutcomeRecordedOnce ==
    /\ \A i \in 1..Len(contextHistory) :
           ~MatchAt(contextHistory[i], UndefinedText, 1)
    /\ lastToolCall = <<>> => recordings = 0
    /\ recordings <= 1

\* C27: the first request of a run that follows a finished run on the same
\* thread keeps the loop going: the whole catalog, tool use forced.
C27_NextRunStartsWithForcedToolUse ==
    runs >= 2 /\ pc = "model" /\ runSteps = 1 => Continuing

====
